---- MODULE Spec2Model ----
(***************************************************************************)
(* Model of src/main.py (PDF Converter): the extraction orchestrator       *)
(* leer_pdf_mejorado with its OCR fallback extraer_texto_con_ocr, the line *)
(* classifier detectar_tipo_contenido, the exporters pdf_a_word and        *)
(* pdf_a_excel, and the driver procesar_conversion.                        *)
(*                                                                         *)
(* A Python str is a sequence of one-character strings.  A Python value    *)
(* that may be None (or a raised exception) is a record [tipo, v].         *)
(***************************************************************************)
EXTENDS Integers, Sequences, FiniteSets, TLC

VARIABLES
    pdf,              \* the PDF on disk: one record per page
    legible,          \* pdfplumber.open succeeds on it
    motorOcr,         \* fitz / pytesseract / PIL can be imported and opened
    escribibles,      \* the output files that can be created and saved
    tipo_conversion,  \* argument of procesar_conversion
    pc,               \* position of the control flow
    llamador,         \* who called leer_pdf_mejorado
    texto_completo,   \* the running buffer of the extraction in progress
    num_pagina,       \* loop index of extraer_texto_con_ocr
    ocrLlamadas,      \* calls of extraer_texto_con_ocr in this extraction
    ocrPaginas,       \* pages rendered and recognised in this extraction
    texto,            \* value returned by the last leer_pdf_mejorado
    intentos,         \* exports attempted by procesar_conversion, in order
    archivo_word,     \* value returned by pdf_a_word
    archivo_excel,    \* value returned by pdf_a_excel
    docx,             \* paragraphs of the saved .docx
    xlsx,             \* cells of the saved .xlsx, by row number
    clasificadas,     \* arguments handed to detectar_tipo_contenido by pdf_a_excel
    excepcion,        \* an exception escaped procesar_conversion
    linea,            \* classifier harness: the line under classification
    clasificacion     \* classifier harness: the classifier's result

vars == <<pdf, legible, motorOcr, escribibles, tipo_conversion, pc, llamador,
          texto_completo, num_pagina, ocrLlamadas, ocrPaginas, texto, intentos,
          archivo_word, archivo_excel, docx, xlsx, clasificadas, excepcion,
          linea, clasificacion>>

(***************************************************************************)
(* Bounds of the model and constants of the program.                       *)
(***************************************************************************)
MaxPaginas == 2       \* pages of a PDF of the pipeline
MaxOcrLen == 4        \* characters recognised on the page of an export PDF
MaxCabeza == 1        \* free leading characters of a classifier line
MaxRelleno == 101     \* repeated middle characters of a classifier line

UmbralOcr == 50       \* len(texto_completo.strip()) < 50
TituloMaxLen == 50    \* len(linea) <= 50
SubtituloMaxLen == 100 \* len(linea) <= 100
ParrafoMinLen == 20   \* len(linea) > 20
FilaInicial == 2      \* fila_actual = 2

(***************************************************************************)
(* Python values.                                                          *)
(***************************************************************************)
None == [tipo |-> "None", v |-> <<>>]
Error == [tipo |-> "error", v |-> <<>>]
Str(s) == [tipo |-> "str", v |-> s]

\* Python truthiness of a str-or-None: None and "" are falsy.
Truthy(x) == x.tipo = "str" /\ Len(x.v) > 0

NL == "\n"
Rep(c, n) == [i \in 1..n |-> c]

\* Characters: "A" upper-case letter, "a" lower-case letter, "1" uncased,
\* "." the period, " " and "\n" white space.
Letras == {"A", "a", "1", ".", " "}
Caracteres == Letras \cup {NL}

EsEspacio(c) == c \in {" ", NL}
CharIsUpper(c) == c = "A"
CharIsLower(c) == c = "a"
CharUpper(c) == IF c = "a" THEN "A" ELSE c

\* str.upper()
Upper(s) == [i \in 1..Len(s) |-> CharUpper(s[i])]

\* Mutant of IsUpper: s == s.upper(), true of a string without letters.
IsUpperSinLetras(s) == s = Upper(s)

\* str.isupper(): no lower-case character and at least one cased character.
IsUpper(s) ==
    /\ \E i \in 1..Len(s) : CharIsUpper(s[i]) \/ CharIsLower(s[i])
    /\ \A i \in 1..Len(s) : ~CharIsLower(s[i])

\* str.endswith('.')
EndsWithDot(s) == Len(s) > 0 /\ s[Len(s)] = "."

\* str.strip(): drop leading and trailing white space.
RECURSIVE LStrip(_)
LStrip(s) ==
    IF s = <<>> THEN <<>>
    ELSE IF EsEspacio(Head(s)) THEN LStrip(Tail(s)) ELSE s

RECURSIVE RStrip(_)
RStrip(s) ==
    IF s = <<>> THEN <<>>
    ELSE IF EsEspacio(s[Len(s)]) THEN RStrip(SubSeq(s, 1, Len(s) - 1)) ELSE s

Strip(s) == RStrip(LStrip(s))

\* str.split('\n'): k newlines give k + 1 pieces, "" gives [""].
RECURSIVE SplitAcc(_, _)
SplitAcc(s, actual) ==
    IF s = <<>> THEN <<actual>>
    ELSE IF Head(s) = NL THEN <<actual>> \o SplitAcc(Tail(s), <<>>)
    ELSE SplitAcc(Tail(s), Append(actual, Head(s)))

Split(s) == SplitAcc(s, <<>>)

\* All sequences over S of length at most n.
RECURSIVE SeqHasta(_, _)
SeqHasta(S, n) ==
    IF n = 0 THEN {<<>>}
    ELSE LET menos == SeqHasta(S, n - 1)
         IN  menos \cup {Append(s, c) : s \in menos, c \in S}

(***************************************************************************)
(* detectar_tipo_contenido (main.py 179-203).  linea[0] on the empty       *)
(* string raises IndexError.                                               *)
(***************************************************************************)
IndexError == <<"IndexError", 0>>

\* Mutant of detectar_tipo_contenido: len(linea) < 100 for the subtitle.
detectar_subtitulo_estricto(l) ==
    IF IsUpper(l) /\ Len(l) <= TituloMaxLen THEN <<"TÍTULO", 1>>
    ELSE IF Len(l) = 0 THEN IndexError
    ELSE IF CharIsUpper(l[1]) /\ Len(l) < SubtituloMaxLen /\ ~EndsWithDot(l)
         THEN <<"SUBTÍTULO", 2>>
    ELSE IF Len(l) > ParrafoMinLen THEN <<"PÁRRAFO", 3>>
    ELSE <<"TEXTO", 3>>

\* Mutant of detectar_tipo_contenido: len(linea) >= 20 for the paragraph.
detectar_parrafo_inclusivo(l) ==
    IF IsUpper(l) /\ Len(l) <= TituloMaxLen THEN <<"TÍTULO", 1>>
    ELSE IF Len(l) = 0 THEN IndexError
    ELSE IF CharIsUpper(l[1]) /\ Len(l) <= SubtituloMaxLen /\ ~EndsWithDot(l)
         THEN <<"SUBTÍTULO", 2>>
    ELSE IF Len(l) >= ParrafoMinLen THEN <<"PÁRRAFO", 3>>
    ELSE <<"TEXTO", 3>>

detectar_tipo_contenido(l) ==
    IF IsUpper(l) /\ Len(l) <= TituloMaxLen THEN <<"TÍTULO", 1>>
    ELSE IF Len(l) = 0 THEN IndexError
    ELSE IF CharIsUpper(l[1]) /\ Len(l) <= SubtituloMaxLen /\ ~EndsWithDot(l)
         THEN <<"SUBTÍTULO", 2>>
    ELSE IF Len(l) > ParrafoMinLen THEN <<"PÁRRAFO", 3>>
    ELSE <<"TEXTO", 3>>

(***************************************************************************)
(* leer_pdf_mejorado (main.py 12-52) and extraer_texto_con_ocr (234-282).  *)
(* A page is [texto, ocr]: texto is what pagina.extract_text() returns     *)
(* (None or a str), ocr is what rendering the page and image_to_string     *)
(* give (a str, or Error when either raises).                              *)
(***************************************************************************)

\* The loop of lines 31-35: pages without text add nothing.
RECURSIVE ExtraerDirecto(_, _)
ExtraerDirecto(paginas, buf) ==
    IF paginas = <<>> THEN buf
    ELSE LET texto_pagina == Head(paginas).texto
         IN  ExtraerDirecto(Tail(paginas),
                 IF Truthy(texto_pagina) THEN buf \o texto_pagina.v \o <<NL>>
                 ELSE buf)

\* Mutant of TextoInsuficiente: the buffer is measured without strip().
TextoInsuficienteSinStrip(buf) == Len(buf) < UmbralOcr

\* Line 38: if len(texto_completo.strip()) < 50.
TextoInsuficiente(buf) == Len(Strip(buf)) < UmbralOcr

\* Mutant of OcrPagina: a failing page is skipped with empty text.
OcrPaginaAbsorbe(buf, pagina) ==
    IF pagina.ocr.tipo = "error" THEN Str(buf \o <<NL>>)
    ELSE Str(buf \o pagina.ocr.v \o <<NL>>)

\* Mutant of OcrPagina: the page text is put before the buffer.
OcrPaginaAlReves(buf, pagina) ==
    IF pagina.ocr.tipo = "error" THEN Error
    ELSE Str(pagina.ocr.v \o <<NL>> \o buf)

\* Lines 260-271, one iteration: the new buffer, or Error when the render or
\* the recognition of the page raises.
OcrPagina(buf, pagina) ==
    IF pagina.ocr.tipo = "error" THEN Error
    ELSE Str(buf \o pagina.ocr.v \o <<NL>>)

\* Lines 277-282: every exception of extraer_texto_con_ocr becomes None.
CapturarOcr(r) == IF r.tipo = "error" THEN None ELSE r

(***************************************************************************)
(* pdf_a_word (main.py 54-110).                                            *)
(***************************************************************************)
Ruta == [tipo |-> "ruta", v |-> <<>>]
SinArchivo == [tipo |-> "ninguno", v |-> <<>>]
Archivo(c) == [tipo |-> "archivo", v |-> c]

\* Mutant of ParrafoDe: every line is written stripped.
ParrafoLimpio(l) == Strip(l)

\* Lines 90-97: one paragraph per line, a blank line as the empty paragraph.
ParrafoDe(l) == IF Strip(l) = <<>> THEN <<>> ELSE l

ParrafosWord(t) ==
    LET lineas == Split(t)
    IN  [i \in 1..Len(lineas) |-> ParrafoDe(lineas[i])]

\* Lines 65-103, the body of the try: what it returns and what it saves.
\* makedirs or save raising is Error.
pdf_a_word_cuerpo(texto_pdf, puedeEscribir) ==
    IF ~Truthy(texto_pdf) THEN [ret |-> None, archivo |-> SinArchivo]
    ELSE IF ~puedeEscribir THEN [ret |-> Error, archivo |-> SinArchivo]
    ELSE [ret |-> Ruta, archivo |-> Archivo(ParrafosWord(texto_pdf.v))]

\* Mutant of CapturarWord: the exception is not caught.
SinCapturarWord(r) == r

\* Lines 105-110: every exception of pdf_a_word becomes None.
CapturarWord(r) == IF r.ret.tipo = "error" THEN [r EXCEPT !.ret = None] ELSE r

(***************************************************************************)
(* pdf_a_excel (main.py 112-177).                                          *)
(***************************************************************************)
Encabezado == <<"Tipo", "Contenido", "Nivel">>
Anchos == <<12, 80, 8>>

\* Mutant of EsBlanca: no line is skipped.
EsBlancaNunca(linea_limpia) == FALSE

\* Line 152: blank lines are skipped.
EsBlanca(linea_limpia) == linea_limpia = <<>>

\* Line 151.
Limpiar(l) == Strip(l)

\* Line 161.
SiguienteFila(fila_actual) == fila_actual + 1

\* Lines 150-161: the loop over the lines.  ws maps a row number to its
\* three cells, args collects what the classifier was called with, ok is
\* FALSE once the classifier has raised.
RECURSIVE FilasExcel(_, _, _, _)
FilasExcel(lineas, fila_actual, ws, args) ==
    IF lineas = <<>> THEN [ok |-> TRUE, ws |-> ws, args |-> args]
    ELSE LET linea_limpia == Limpiar(Head(lineas))
         IN  IF EsBlanca(linea_limpia)
             THEN FilasExcel(Tail(lineas), fila_actual, ws, args)
             ELSE LET r == detectar_tipo_contenido(linea_limpia)
                      llamadas == Append(args, linea_limpia)
                  IN  IF r = IndexError
                      THEN [ok |-> FALSE, ws |-> ws, args |-> llamadas]
                      ELSE FilasExcel(Tail(lineas), SiguienteFila(fila_actual),
                               [f \in DOMAIN ws \cup {fila_actual} |->
                                   IF f = fila_actual
                                   THEN <<r[1], linea_limpia, r[2]>>
                                   ELSE ws[f]],
                               llamadas)

SinFilas == [f \in {} |-> <<>>]

\* Lines 116-170, the body of the try.
pdf_a_excel_cuerpo(texto_pdf, puedeEscribir) ==
    IF ~Truthy(texto_pdf)
    THEN [ret |-> None, archivo |-> SinArchivo, args |-> <<>>]
    ELSE IF ~puedeEscribir
    THEN [ret |-> Error, archivo |-> SinArchivo, args |-> <<>>]
    ELSE LET hoja == FilasExcel(Split(texto_pdf.v), FilaInicial, SinFilas, <<>>)
         IN  IF ~hoja.ok
             THEN [ret |-> Error, archivo |-> SinArchivo, args |-> hoja.args]
             ELSE [ret |-> Ruta,
                   archivo |-> Archivo([titulo |-> "Contenido PDF",
                                        encabezado |-> Encabezado,
                                        anchos |-> Anchos,
                                        filas |-> hoja.ws]),
                   args |-> hoja.args]

\* Lines 172-177: every exception of pdf_a_excel becomes None.
CapturarExcel(r) == IF r.ret.tipo = "error" THEN [r EXCEPT !.ret = None] ELSE r

(***************************************************************************)
(* The inputs.                                                             *)
(***************************************************************************)
\* Two page texts around the threshold: 24 and 25 characters, with outer
\* white space that strip() removes.
Texto24 == <<" ">> \o Rep("A", 5) \o <<NL, NL>> \o Rep("a", 16)
Texto25 == <<"A", "a", ".", NL, " ", NL>> \o Rep("a", 18) \o <<" ">>

TextosPagina == {None, Str(<<>>), Str(Texto24), Str(Texto25)}
OcrPaginaPosibles == {Error, Str(<<>>), Str(<<"A", "a", " ">>)}

Paginas == [texto : TextosPagina, ocr : OcrPaginaPosibles]

RECURSIVE Documentos(_)
Documentos(n) ==
    IF n = 0 THEN {<<>>}
    ELSE LET menos == Documentos(n - 1)
         IN  menos \cup {Append(d, p) : d \in {m \in menos : Len(m) = n - 1},
                                        p \in Paginas}

Destinos == {"word", "excel"}
TiposConversion == {"word", "excel", "ambos"}

Pendiente == <<"pendiente", 0>>

\* The state of procesar_conversion before its first statement.
Reposo ==
    /\ llamador = "nadie"
    /\ texto_completo = <<>>
    /\ num_pagina = 0
    /\ ocrLlamadas = 0
    /\ ocrPaginas = <<>>
    /\ texto = None
    /\ intentos = <<>>
    /\ archivo_word = None
    /\ archivo_excel = None
    /\ docx = SinArchivo
    /\ xlsx = SinArchivo
    /\ clasificadas = <<>>
    /\ excepcion = FALSE

Init ==
    /\ pdf \in Documentos(MaxPaginas)
    /\ legible \in BOOLEAN
    /\ motorOcr \in BOOLEAN
    /\ escribibles \in SUBSET Destinos
    /\ tipo_conversion \in TiposConversion
    /\ pc = "inicio"
    /\ Reposo
    /\ linea = <<>>
    /\ clasificacion = Pendiente

(***************************************************************************)
(* procesar_conversion (main.py 336-378) and the functions it calls.       *)
(***************************************************************************)
entorno == <<pdf, legible, motorOcr, escribibles, tipo_conversion, linea,
             clasificacion>>
salidas == <<archivo_word, archivo_excel, docx, xlsx, clasificadas>>
ocrVars == <<texto_completo, num_pagina, ocrLlamadas, ocrPaginas>>

\* Lines 344-349: texto = leer_pdf_mejorado(pdf_seleccionado).
Analizar ==
    /\ pc = "inicio"
    /\ llamador' = "procesar"
    /\ pc' = "leer"
    /\ UNCHANGED <<entorno, salidas, ocrVars, texto, intentos, excepcion>>

\* Lines 22-42 and 44-52: direct extraction, then the choice of the OCR
\* path.  An unreadable file raises, and the function returns None.
leer_pdf_mejorado ==
    /\ pc = "leer"
    /\ num_pagina' = 0
    /\ ocrPaginas' = <<>>
    /\ IF ~legible
       THEN /\ texto' = None
            /\ texto_completo' = <<>>
            /\ ocrLlamadas' = 0
            /\ pc' = "retorno"
       ELSE LET buf == ExtraerDirecto(pdf, <<>>)
            IN  /\ texto_completo' = buf
                /\ IF TextoInsuficiente(buf)
                   THEN /\ ocrLlamadas' = 1
                        /\ texto' = None
                        /\ pc' = "ocr_abrir"
                   ELSE /\ ocrLlamadas' = 0
                        /\ texto' = Str(buf)
                        /\ pc' = "retorno"
    /\ UNCHANGED <<entorno, salidas, llamador, intentos, excepcion>>

\* Lines 244-257: the imports and fitz.open; a missing engine returns None.
OcrAbrir ==
    /\ pc = "ocr_abrir"
    /\ texto_completo' = <<>>
    /\ IF motorOcr
       THEN pc' = "ocr_pagina" /\ texto' = texto
       ELSE pc' = "retorno" /\ texto' = CapturarOcr(Error)
    /\ UNCHANGED <<entorno, salidas, llamador, num_pagina, ocrLlamadas,
                   ocrPaginas, intentos, excepcion>>

\* Lines 259-272: one iteration of the loop over range(len(doc)).
OcrIterar ==
    /\ pc = "ocr_pagina"
    /\ num_pagina < Len(pdf)
    /\ ocrPaginas' = Append(ocrPaginas, num_pagina + 1)
    /\ LET r == OcrPagina(texto_completo, pdf[num_pagina + 1])
       IN  IF r.tipo = "error"
           THEN /\ texto' = CapturarOcr(r)
                /\ pc' = "retorno"
                /\ UNCHANGED <<texto_completo, num_pagina>>
           ELSE /\ texto_completo' = r.v
                /\ num_pagina' = num_pagina + 1
                /\ UNCHANGED <<texto, pc>>
    /\ UNCHANGED <<entorno, salidas, llamador, ocrLlamadas, intentos,
                   excepcion>>

\* Lines 274-275 and 40-42: the loop is over, the buffer is returned.
OcrTerminar ==
    /\ pc = "ocr_pagina"
    /\ num_pagina = Len(pdf)
    /\ texto' = Str(texto_completo)
    /\ pc' = "retorno"
    /\ UNCHANGED <<entorno, salidas, llamador, ocrVars, intentos, excepcion>>

\* Lines 351-359: no text, no conversion.
TrasAnalizar ==
    /\ pc = "retorno"
    /\ llamador = "procesar"
    /\ pc' = IF Truthy(texto) THEN "conv_word" ELSE "fin"
    /\ UNCHANGED <<entorno, salidas, llamador, ocrVars, texto, intentos,
                   excepcion>>

\* Lines 362-364 and 69: the Word export is asked for, and extracts again.
ConvertirWord ==
    /\ pc = "conv_word"
    /\ IF tipo_conversion \in {"word", "ambos"}
       THEN /\ intentos' = Append(intentos, "word")
            /\ llamador' = "word"
            /\ pc' = "leer"
       ELSE /\ pc' = "conv_excel"
            /\ UNCHANGED <<intentos, llamador>>
    /\ UNCHANGED <<entorno, salidas, ocrVars, texto, excepcion>>

\* Lines 70-110 and 365-368: the rest of pdf_a_word.
pdf_a_word ==
    /\ pc = "retorno"
    /\ llamador = "word"
    /\ LET r == CapturarWord(pdf_a_word_cuerpo(texto, "word" \in escribibles))
       IN  /\ archivo_word' = r.ret
           /\ docx' = r.archivo
           /\ excepcion' = (r.ret.tipo = "error")
           /\ pc' = IF r.ret.tipo = "error" THEN "abortado" ELSE "conv_excel"
    /\ UNCHANGED <<entorno, ocrVars, texto, llamador, intentos, archivo_excel,
                   xlsx, clasificadas>>

\* Lines 370-372 and 120: the Excel export is asked for, and extracts again.
ConvertirExcel ==
    /\ pc = "conv_excel"
    /\ IF tipo_conversion \in {"excel", "ambos"}
       THEN /\ intentos' = Append(intentos, "excel")
            /\ llamador' = "excel"
            /\ pc' = "leer"
       ELSE /\ pc' = "fin"
            /\ UNCHANGED <<intentos, llamador>>
    /\ UNCHANGED <<entorno, salidas, ocrVars, texto, excepcion>>

\* Lines 121-177 and 373-378: the rest of pdf_a_excel.
pdf_a_excel ==
    /\ pc = "retorno"
    /\ llamador = "excel"
    /\ LET r == CapturarExcel(
                    pdf_a_excel_cuerpo(texto, "excel" \in escribibles))
       IN  /\ archivo_excel' = r.ret
           /\ xlsx' = r.archivo
           /\ clasificadas' = r.args
           /\ excepcion' = (r.ret.tipo = "error")
           /\ pc' = IF r.ret.tipo = "error" THEN "abortado" ELSE "fin"
    /\ UNCHANGED <<entorno, ocrVars, texto, llamador, intentos, archivo_word,
                   docx>>

Next ==
    \/ Analizar
    \/ leer_pdf_mejorado
    \/ OcrAbrir
    \/ OcrIterar
    \/ OcrTerminar
    \/ TrasAnalizar
    \/ ConvertirWord
    \/ pdf_a_word
    \/ ConvertirExcel
    \/ pdf_a_excel

Spec == Init /\ [][Next]_vars

(***************************************************************************)
(* The exporters on every short text: a one-page scanned PDF whose         *)
(* recognised text ranges over all strings of at most MaxOcrLen            *)
(* characters, converted by the same program.                              *)
(***************************************************************************)
InitExport ==
    /\ pdf \in {<<[texto |-> None, ocr |-> Str(t)]>> :
                    t \in SeqHasta(Caracteres, MaxOcrLen)}
    /\ legible = TRUE
    /\ motorOcr = TRUE
    /\ escribibles = Destinos
    /\ tipo_conversion \in TiposConversion
    /\ pc = "inicio"
    /\ Reposo
    /\ linea = <<>>
    /\ clasificacion = Pendiente

SpecExport == InitExport /\ [][Next]_vars

(***************************************************************************)
(* The classifier on its own: lines of every length up to past the three   *)
(* thresholds, with every mix of first, middle and last character.         *)
(***************************************************************************)
LineasPrueba ==
    {cabeza \o Rep(c, n) \o cola :
        cabeza \in SeqHasta(Letras, MaxCabeza), c \in Letras,
        n \in 0..MaxRelleno, cola \in SeqHasta(Letras, 1)}

InitClasificador ==
    /\ pdf = <<>>
    /\ legible = TRUE
    /\ motorOcr = TRUE
    /\ escribibles = Destinos
    /\ tipo_conversion = "excel"
    /\ pc = "clasificador"
    /\ Reposo
    /\ linea \in LineasPrueba
    /\ clasificacion = Pendiente

Clasificar ==
    /\ pc = "clasificador"
    /\ clasificacion = Pendiente
    /\ clasificacion' = detectar_tipo_contenido(linea)
    /\ UNCHANGED <<pdf, legible, motorOcr, escribibles, tipo_conversion, pc,
                   llamador, ocrVars, texto, intentos, salidas, excepcion,
                   linea>>

NextClasificador == Clasificar

SpecClasificador == InitClasificador /\ [][NextClasificador]_vars

(***************************************************************************)
(* Properties.                                                             *)
(***************************************************************************)
Titulo == <<"TÍTULO", 1>>
Subtitulo == <<"SUBTÍTULO", 2>>
Parrafo == <<"PÁRRAFO", 3>>
TextoCorto == <<"TEXTO", 3>>

\* The text the pages give directly, page by page.
DirectoDe(d) == ExtraerDirecto(d, <<>>)

SinTextoDirecto(d) == \A i \in 1..Len(d) : ~Truthy(d[i].texto)
FallaOcr(d, i) == d[i].ocr.tipo = "error"
SinFallasOcr(d) == \A i \in 1..Len(d) : ~FallaOcr(d, i)

\* The recognised texts of pages 1..n, each followed by a newline, a failed
\* page giving the empty text.
RECURSIVE OcrUnido(_, _)
OcrUnido(d, n) ==
    IF n = 0 THEN <<>>
    ELSE OcrUnido(d, n - 1)
             \o (IF FallaOcr(d, n) THEN <<>> ELSE d[n].ocr.v) \o <<NL>>

Hasta(n) == [i \in 1..n |-> i]

\* leer_pdf_mejorado has just returned from a file it could open.
Extraido == pc = "retorno" /\ legible

\* C1: when the stripped direct text is shorter than 50 characters the value
\* returned by leer_pdf_mejorado is the value of the one call of
\* extraer_texto_con_ocr (its text, or None when it failed), not the direct
\* buffer; otherwise extraer_texto_con_ocr is not called and the direct
\* buffer is returned.
C1_OcrBelowThreshold ==
    Extraido =>
        IF Len(Strip(DirectoDe(pdf))) < 50
        THEN /\ ocrLlamadas = 1
             /\ texto = IF motorOcr /\ SinFallasOcr(pdf)
                        THEN Str(OcrUnido(pdf, Len(pdf)))
                        ELSE None
        ELSE /\ ocrLlamadas = 0
             /\ ocrPaginas = <<>>
             /\ texto = Str(DirectoDe(pdf))

\* C1 witness: some direct text was extracted, too short after stripping,
\* and the returned text is the recognised one.
C1_Witness ==
    /\ Extraido
    /\ Len(DirectoDe(pdf)) >= 50
    /\ Len(Strip(DirectoDe(pdf))) < 50
    /\ Truthy(texto)
    /\ texto.v # DirectoDe(pdf)

\* C2 (as claimed): when no page has selectable text and every page is
\* recognised as the empty string, leer_pdf_mejorado returns no text, and no
\* .docx and no .xlsx is written.
C2_NoTextIsFailure ==
    (/\ legible
     /\ motorOcr
     /\ SinTextoDirecto(pdf)
     /\ \A i \in 1..Len(pdf) : pdf[i].ocr = Str(<<>>))
    => /\ pc = "retorno" => ~Truthy(texto)
       /\ docx = SinArchivo
       /\ xlsx = SinArchivo

\* C3 (as claimed): a non-empty line equal to its upper-casing and of at
\* most 50 characters is classified (Title, 1), cased characters or not.
C3_UpperEqualIsTitle ==
    (/\ clasificacion # Pendiente
     /\ Len(linea) > 0
     /\ linea = Upper(linea)
     /\ Len(linea) <= 50)
    => clasificacion = Titulo

TieneLetra(l) == \E i \in 1..Len(l) : l[i] \in {"A", "a"}

\* C3 (amended): a line of at most 50 characters equal to its upper-casing
\* is (Title, 1) when it holds at least one cased character, and is not a
\* Title when it holds none.
C3_CasedUpperIsTitle ==
    (/\ clasificacion # Pendiente
     /\ Len(linea) > 0
     /\ linea = Upper(linea)
     /\ Len(linea) <= 50)
    => (clasificacion = Titulo <=> TieneLetra(linea))

\* C3 witness: a Title of exactly 50 characters that mixes upper-case
\* letters with uncased characters.
C3_Witness ==
    /\ clasificacion = Titulo
    /\ Len(linea) = 50
    /\ \E i \in 1..Len(linea) : linea[i] = "1"

\* C4: a non-empty line that is not (upper-case and at most 50 long), whose
\* first character is upper-case, of at most 100 characters and not ending
\* in a period, is classified (Subtitle, 2).
C4_Subtitle ==
    (/\ clasificacion # Pendiente
     /\ Len(linea) > 0
     /\ ~(linea = Upper(linea) /\ Len(linea) <= 50)
     /\ linea[1] = "A"
     /\ Len(linea) <= 100
     /\ linea[Len(linea)] # ".")
    => clasificacion = Subtitulo

\* C4 witness: an all-upper-case line of 100 characters is a Subtitle.
C4_Witness ==
    /\ clasificacion = Subtitulo
    /\ Len(linea) = 100
    /\ linea = Upper(linea)
    /\ TieneLetra(linea)

ReglaTitulo(l) ==
    /\ TieneLetra(l)
    /\ \A i \in 1..Len(l) : l[i] # "a"
    /\ Len(l) <= 50

ReglaSubtitulo(l) ==
    /\ l[1] = "A"
    /\ Len(l) <= 100
    /\ l[Len(l)] # "."

\* C5: on a non-empty line the first matching rule of Title, Subtitle,
\* Paragraph, Text decides: a line matching neither Title nor Subtitle is
\* (Paragraph, 3) when longer than 20 characters and (Text, 3) otherwise,
\* and the level is 1, 2 or 3.
C5_ParagraphOrText ==
    (clasificacion # Pendiente /\ Len(linea) > 0) =>
        /\ clasificacion[2] \in {1, 2, 3}
        /\ ReglaTitulo(linea) => clasificacion = Titulo
        /\ ~ReglaTitulo(linea) /\ ReglaSubtitulo(linea)
               => clasificacion = Subtitulo
        /\ ~ReglaTitulo(linea) /\ ~ReglaSubtitulo(linea)
               => clasificacion = IF Len(linea) > 20 THEN Parrafo
                                  ELSE TextoCorto

\* C5 witness: a line of 21 characters starting upper-case and ending in a
\* period is a Paragraph.
C5_Witness ==
    /\ clasificacion = Parrafo
    /\ Len(linea) = 21
    /\ linea[1] = "A"
    /\ linea[21] = "."

\* pdf_a_word has just run on the text in texto.
TrasWord == pc = "conv_excel" /\ llamador = "word"

\* C6 (as claimed): the paragraphs of the saved .docx are the lines of the
\* text, blank lines included verbatim.
C6_RoundTripVerbatim ==
    (TrasWord /\ docx.tipo = "archivo") => docx.v = Split(texto.v)

\* C6 (amended): the .docx has one paragraph per line of the text, in order;
\* a line with a non-white-space character is kept verbatim, and a line of
\* white space only (or empty) becomes the empty paragraph.
C6_RoundTripBlankAsEmpty ==
    (TrasWord /\ Truthy(texto) /\ "word" \in escribibles) =>
        /\ archivo_word = Ruta
        /\ docx.tipo = "archivo"
        /\ Len(docx.v) = Len(Split(texto.v))
        /\ \A i \in 1..Len(docx.v) :
              LET l == Split(texto.v)[i]
              IN  docx.v[i] = IF \E j \in 1..Len(l) : l[j] \notin {" ", NL}
                              THEN l ELSE <<>>

\* C6 witness: a text with a line of text and a line of one space.
C6_Witness ==
    /\ TrasWord
    /\ docx.tipo = "archivo"
    /\ \E i \in 1..Len(docx.v) :
          /\ Split(texto.v)[i] = <<" ">>
          /\ docx.v[i] = <<>>
    /\ \E i \in 1..Len(docx.v) : Len(docx.v[i]) > 1

\* pdf_a_excel has just run on the text in texto.
TrasExcel == pc = "fin" /\ llamador = "excel"

NoBlanca(l) == \E j \in 1..Len(l) : l[j] \notin {" ", NL}

\* C7: the .xlsx holds, below the header, one row per non-blank line of the
\* text, in order, on rows 2, 3, ...; the row is (role, stripped line,
\* level) as classified for the stripped line; the classifier is called on
\* exactly those stripped lines, none of them empty.
C7_ExcelRows ==
    (TrasExcel /\ Truthy(texto) /\ "excel" \in escribibles) =>
        LET utiles == SelectSeq(Split(texto.v), NoBlanca)
        IN  /\ archivo_excel = Ruta
            /\ xlsx.tipo = "archivo"
            /\ xlsx.v.encabezado = <<"Tipo", "Contenido", "Nivel">>
            /\ DOMAIN xlsx.v.filas = 2..(Len(utiles) + 1)
            /\ \A i \in 1..Len(utiles) :
                  LET d == detectar_tipo_contenido(Strip(utiles[i]))
                  IN  /\ xlsx.v.filas[i + 1] = <<d[1], Strip(utiles[i]), d[2]>>
                      /\ d # IndexError
            /\ clasificadas = [i \in 1..Len(utiles) |-> Strip(utiles[i])]
            /\ \A i \in 1..Len(clasificadas) : clasificadas[i] # <<>>

\* C7 witness: two rows from a text that has a blank line and a line with
\* outer white space.
C7_Witness ==
    /\ TrasExcel
    /\ xlsx.tipo = "archivo"
    /\ DOMAIN xlsx.v.filas = {2, 3}
    /\ \E i \in 1..Len(Split(texto.v)) : ~NoBlanca(Split(texto.v)[i])
    /\ \E i \in 1..Len(Split(texto.v)) :
          /\ NoBlanca(Split(texto.v)[i])
          /\ Strip(Split(texto.v)[i]) # Split(texto.v)[i]

\* The OCR fallback ran with its engine available and has returned.
TrasOcr == Extraido /\ ocrLlamadas = 1 /\ motorOcr

PrimeraFalla(d) ==
    IF SinFallasOcr(d) THEN 0
    ELSE CHOOSE k \in 1..Len(d) :
             FallaOcr(d, k) /\ \A j \in 1..(k - 1) : ~FallaOcr(d, j)

C9_BothAttempted ==
    /\ ~excepcion
    /\ pc # "abortado"
    /\ pc \in {"inicio", "leer", "ocr_abrir", "ocr_pagina", "retorno",
               "conv_word", "conv_excel", "fin", "clasificador"}
    /\ pc = "retorno" => llamador \in {"procesar", "word", "excel"}
    /\ pc = "ocr_pagina" => num_pagina <= Len(pdf)
    /\ (pc = "fin" /\ tipo_conversion = "ambos") =>
          IF llamador = "procesar" THEN ~Truthy(texto)
          ELSE intentos = <<"word", "excel">>
    /\ (tipo_conversion = "ambos" /\ llamador = "excel") =>
          intentos = <<"word", "excel">>

\* C9 witness: the Word export failed and the Excel export then succeeded.
C9_Witness ==
    /\ pc = "fin"
    /\ tipo_conversion = "ambos"
    /\ intentos = <<"word", "excel">>
    /\ archivo_word = None
    /\ docx = SinArchivo
    /\ archivo_excel = Ruta

====
